---- MODULE Spec2Model ----
(***************************************************************************)
(* node-hbase-client, lib/connection.js: one RPC Connection multiplexing   *)
(* Calls over a socket, the response-dispatch loop (_nextResponse), the    *)
(* per-call deadline timer and the draining of the Pending-Call Table on   *)
(* socket 'close' / 'error'.                                               *)
(*                                                                         *)
(* JavaScript runs every handler to completion on one thread, so each      *)
(* handler (call(), a socket event, a read callback, a timer) is one       *)
(* atomic action.  A callback given to call() may call call() again: from  *)
(* a timer or a read callback that is the same as a call() action taken    *)
(* next, so only the callbacks run by a drain (_cleanupCalls), where the   *)
(* order of the nested call() and the traversal matters, are modelled as   *)
(* part of the handler.  The stream reader (data_input_stream) calls the   *)
(* prefix callback and the payload callback once the bytes they wait for   *)
(* have arrived, and a socket that has reported 'close' or 'error'         *)
(* delivers no more bytes.                                                 *)
(***************************************************************************)
EXTENDS Integers, Sequences, FiniteSets, TLC

\* ------------------------------------------------------------------ bounds
MaxCalls == 2          \* Calls created in one run (objects built by `new Call`)
MaxCloseEvents == 2    \* socket 'close' events one socket may report
MaxErrorEvents == 1    \* socket 'error' events one socket may report

Conns == {1, 2}                    \* the Connection objects a process may construct
Flags == 0 .. 3                    \* the flag byte of a response prefix (two low bits)
TimeoutArgs == {0, -1}             \* rpcTimeout argument of call(): absent, non-positive
Ids == 0 .. MaxCalls               \* call ids a response prefix may bear (one never issued)

\* --------------------------------------------------------- program constants
DEFAULT_RPC_TIMEOUT == 10000      \* remoteId.rpcTimeout || 10000

VARIABLES
  conns,          \* the Connection objects constructed by the process
  Call_Counter,   \* process-wide call id counter
  objs,           \* the Call objects, in creation order: id, timeout, timer, done, error, value
  owner,          \* for each Call object, the Connection whose call() created it
  doneEvents,     \* for each Call object, the 'done' events emitted to its callback: <<error, value>>
  calls,          \* per Connection: this.calls, a map  call id -> Call object
  closed,         \* per Connection: this.closed
  rpcTimeout,     \* per Connection: this.rpcTimeout
  socket,         \* per Connection: the socket: connected, ended (socket.end() called), events reported
  out,            \* per Connection: everything written to this.out, in order
  rd,             \* per Connection: where the dispatch loop stands
  cur,            \* per Connection: what the payload callback's closure captured (call, isError, size)
  wire,           \* per Connection: id and flag, as sent, of the frame being dispatched
  closeEmits,     \* per Connection: number of 'close' notifications emitted by the Connection
  reads           \* per Connection: the reads issued on this.in whose callback has not run yet

vars == <<conns, Call_Counter, objs, owner, doneEvents, calls, closed, rpcTimeout,
          socket, out, rd, cur, wire, closeEmits, reads>>

\* ---------------------------------------------------------------- values
Null == "null"
NoError == <<Null, Null, Null>>
ConnectionClosedException == <<"ConnectionClosedException", "socket closed.", Null>>
SocketErr == <<"Error", "socket error", Null>>
ReadErr == <<"Error", "read error", Null>>
RemoteCallTimeoutException(t) == <<"RemoteCallTimeoutException", ToString(t) \o " ms timeout", Null>>
RemoteException(name, message) == <<"RemoteException", name, message>>
MissingLength(flag) ==
  RemoteException("RemoteException", "missing data length packet, flag: " \o ToString(flag))

Undefined == 0        \* self.calls[id] for an id that is not in the table

EmptyTable == [i \in {} |-> Undefined]
NoFrame == [id |-> -1, flag |-> 0]
NoClosure == [call |-> Undefined, isError |-> FALSE]

\* ------------------------------------------------- ResponseFlag (ipc/response_flag)
ERROR_BIT == 1
LENGTH_BIT == 2
isError(flag) == ((flag \div ERROR_BIT) % 2) = 1
isLength(flag) == ((flag \div LENGTH_BIT) % 2) = 1

\* ------------------------------------------------------ the Pending-Call Table
\* a lookup that takes the oldest pending call, whatever id the response bears
TableGetOldest(table, id) ==
  IF DOMAIN table = {} THEN Undefined
  ELSE table[CHOOSE x \in DOMAIN table : \A y \in DOMAIN table : x <= y]

\* self.calls[id]
TableGet(table, id) == IF id \in DOMAIN table THEN table[id] ELSE Undefined
\* this.calls[call.id] = call
TablePut(table, id, k) == [i \in DOMAIN table \cup {id} |-> IF i = id THEN k ELSE table[i]]
\* delete self.calls[id]
TableDelete(table, id) == [i \in DOMAIN table \ {id} |-> table[i]]

\* ------------------------------------------------------------------- Call
\* a counter that is read but not advanced
NextCounterStuck(counter) == counter

\* Call_Counter++
NextCounter(counter) == counter + 1

\* timeout && timeout > 0
ArmsTimer(timeout) == timeout # 0 /\ timeout > 0

\* new Call(param, timeout)
NewCall(counter, timeout) ==
  [id |-> counter, timeout |-> timeout,
   timer |-> IF ArmsTimer(timeout) THEN "armed" ELSE "none",
   done |-> FALSE, error |-> NoError, value |-> Null]

\* callComplete without the `if (this.done) return`
callCompleteNoDoneCheck(S, k) ==
  LET c == S.o[k]
      t == IF c.timer = "armed" THEN "cleared" ELSE c.timer
  IN [o |-> [S.o EXCEPT ![k].timer = t, ![k].done = TRUE],
      e |-> [S.e EXCEPT ![k] = Append(@, <<c.error, c.value>>)]]

\* callComplete without the clearTimeout
callCompleteNoClear(S, k) ==
  LET c == S.o[k]
  IN IF c.done
       THEN S
       ELSE [o |-> [S.o EXCEPT ![k].done = TRUE],
             e |-> [S.e EXCEPT ![k] = Append(@, <<c.error, c.value>>)]]

\* S = [o |-> the Call objects, e |-> the 'done' events emitted so far]
\* Call.prototype.callComplete on object k
callComplete(S, k) ==
  LET c == S.o[k]
      t == IF c.timer = "armed" THEN "cleared" ELSE c.timer
  IN IF c.done
       THEN [S EXCEPT !.o[k].timer = t]
       ELSE [o |-> [S.o EXCEPT ![k].timer = t, ![k].done = TRUE],
             e |-> [S.e EXCEPT ![k] = Append(@, <<c.error, c.value>>)]]

\* Call.prototype.setException
setException(S, k, err) == callComplete([S EXCEPT !.o[k].error = err], k)

\* Call.prototype.setValue
setValue(S, k, value) == callComplete([S EXCEPT !.o[k].value = value], k)

\* Call.prototype._handleTimeoutit
handleTimeoutit(S, k) == setException(S, k, RemoteCallTimeoutException(S.o[k].timeout))

\* ------------------------------------------------------------- Connection
Min(set) == CHOOSE x \in set : \A y \in set : x <= y

\* this.rpcTimeout = remoteId.rpcTimeout || 10000
InitRpcTimeout(remote) == IF remote # 0 THEN remote ELSE DEFAULT_RPC_TIMEOUT

\* remoteId.rpcTimeout of the RemoteIdentity each Connection is built from (0: not set)
RemoteRpcTimeout(c) == 0

\* rpcTimeout = rpcTimeout || this.rpcTimeout
EffectiveTimeout(arg, c) == IF arg # 0 THEN arg ELSE rpcTimeout[c]

Handshake == <<"hrpc", "version", "headerLen", "header">>
RequestFrame(id) == "request#" \o ToString(id)

\* the state once the Connections of `built` have been constructed
Constructed(built) ==
  /\ conns = built
  /\ Call_Counter = 0
  /\ objs = <<>>
  /\ owner = <<>>
  /\ doneEvents = <<>>
  /\ calls = [c \in Conns |-> EmptyTable]
  /\ closed = [c \in Conns |-> FALSE]
  /\ rpcTimeout = [c \in Conns |-> InitRpcTimeout(RemoteRpcTimeout(c))]
  /\ socket = [c \in Conns |-> [connected |-> FALSE, ended |-> FALSE, closes |-> 0, errors |-> 0]]
  /\ out = [c \in Conns |-> <<>>]
  /\ rd = [c \in Conns |-> "idle"]
  /\ cur = [c \in Conns |-> NoClosure]
  /\ wire = [c \in Conns |-> NoFrame]
  /\ closeEmits = [c \in Conns |-> 0]
  /\ reads = [c \in Conns |-> <<>>]

\* a process with one Connection
Init == Constructed({1})

\* a process with two Connections
InitMulti == Constructed(Conns)

\* Connection.prototype._close
close(sock) == [sock EXCEPT !.ended = TRUE]

\* call() without the check of this.closed
isClosedUnchecked(flag) == FALSE

\* if (this.closed) of call()
isClosed(flag) == flag

\* What call(), _handleClose and _cleanupCalls of Connection c read and write, as a record K:
\*   o, e     the Call objects and the 'done' events emitted so far
\*   own      the owner of each Call object
\*   ctr      Call_Counter
\*   tab      this.calls
\*   closed   this.closed
\*   out      this.out
\*   emits    the 'close' notifications emitted
\* `retry` is the set of Call objects whose callback, when it receives 'done' from a drain,
\* issues the call again on the same Connection with the same timeout.
StateOf(c) ==
  [o |-> objs, e |-> doneEvents, own |-> owner, ctr |-> Call_Counter, tab |-> calls[c],
   closed |-> closed[c], out |-> out[c], emits |-> closeEmits[c]]

RECURSIVE callIn(_, _, _, _), handleClose(_, _, _), cleanupCalls(_, _, _, _),
          Traverse(_, _, _, _, _)

\* a _cleanupCalls that traverses this.calls itself and resets it after the traversal
cleanupCallsResetAfter(K, c, err, retry) ==
  [Traverse(K, c, K.tab, err, retry) EXCEPT !.tab = EmptyTable]

\* Connection.prototype._cleanupCalls: this.calls is replaced by an empty table, then the
\* old table is traversed
cleanupCalls(K, c, err, retry) ==
  Traverse([K EXCEPT !.tab = EmptyTable], c, K.tab, err, retry)

\* the for-in traversal of _cleanupCalls over the table `old`: integer keys in ascending
\* order; call.setException(err) emits 'done', and the callback of a Call in `retry` calls
\* call() before the traversal goes on
Traverse(K, c, old, err, retry) ==
  IF DOMAIN old = {} THEN K
  ELSE LET id == Min(DOMAIN old)
           k == old[id]
           S == setException([o |-> K.o, e |-> K.e], k, err)
           K1 == [K EXCEPT !.o = S.o, !.e = S.e]
           K2 == IF Len(S.e[k]) > Len(K.e[k]) /\ k \in retry
                   THEN callIn(K1, c, K.o[k].timeout, retry)
                   ELSE K1
       IN Traverse(K2, c, TableDelete(old, id), err, retry)

\* Connection.prototype._handleClose
handleClose(K, c, retry) ==
  LET K1 == cleanupCalls([K EXCEPT !.closed = TRUE], c, ConnectionClosedException, retry)
  IN [K1 EXCEPT !.emits = @ + 1]

\* Connection.prototype.call with rpcTimeout argument arg
callIn(K, c, arg, retry) ==
  LET obj == NewCall(K.ctr, EffectiveTimeout(arg, c))
      k == Len(K.o) + 1
      K1 == [K EXCEPT !.o = Append(@, obj), !.e = Append(@, <<>>), !.own = Append(@, c),
                      !.ctr = NextCounter(@), !.tab = TablePut(@, obj.id, k)]
  IN IF isClosed(K1.closed)
       THEN handleClose(K1, c, retry)
       ELSE [K1 EXCEPT !.out = Append(@, RequestFrame(obj.id))]

\* the handler of Connection c leaves the state K
Becomes(c, K) ==
  /\ Len(K.o) <= MaxCalls
  /\ objs' = K.o
  /\ doneEvents' = K.e
  /\ owner' = K.own
  /\ Call_Counter' = K.ctr
  /\ calls' = [calls EXCEPT ![c] = K.tab]
  /\ closed' = [closed EXCEPT ![c] = K.closed]
  /\ out' = [out EXCEPT ![c] = K.out]
  /\ closeEmits' = [closeEmits EXCEPT ![c] = K.emits]

\* call(method, parameters, arg, callback) invoked on Connection c
call(c, arg, retry) ==
  /\ Len(objs) < MaxCalls
  /\ Becomes(c, callIn(StateOf(c), c, arg, retry))
  /\ UNCHANGED <<conns, rpcTimeout, socket, rd, cur, wire, reads>>

\* Connection.prototype._nextResponse: this.in.readFields(...) is issued
nextResponse(q) == Append(q, "prefix")

\* a prefix callback that issues readBytes and calls _nextResponse at once
readBytesAndRearm(q) == q \o <<"payload", "prefix">>

\* this.in.readBytes(size, ...) is issued
readBytes(q) == Append(q, "payload")

\* the socket's 'connect' event: writeHeader, _nextResponse, emit('connect')
SocketConnect(c) ==
  /\ ~socket[c].connected /\ socket[c].closes = 0 /\ socket[c].errors = 0
  /\ socket' = [socket EXCEPT ![c].connected = TRUE]
  /\ out' = [out EXCEPT ![c] = @ \o Handshake]
  /\ rd' = [rd EXCEPT ![c] = "prefix"]
  /\ reads' = [reads EXCEPT ![c] = nextResponse(@)]
  /\ UNCHANGED <<conns, Call_Counter, objs, owner, doneEvents, calls, closed, rpcTimeout, cur, wire,
                 closeEmits>>

\* the socket's 'close' event -> _handleClose
SocketClose(c, retry) ==
  /\ socket[c].closes < MaxCloseEvents
  /\ socket' = [socket EXCEPT ![c].closes = @ + 1]
  /\ Becomes(c, handleClose(StateOf(c), c, retry))
  /\ UNCHANGED <<conns, rpcTimeout, rd, cur, wire, reads>>

\* the socket's 'error' event -> _handleError
SocketError(c, retry) ==
  /\ socket[c].errors < MaxErrorEvents /\ socket[c].closes = 0
  /\ socket' = [socket EXCEPT ![c].errors = @ + 1]
  /\ Becomes(c, cleanupCalls(StateOf(c), c, SocketErr, retry))
  /\ UNCHANGED <<conns, rpcTimeout, rd, cur, wire, reads>>

\* a _close that also fails the pending Calls
ShutdownDraining(c) ==
  /\ ~socket[c].ended /\ socket[c].closes = 0
  /\ socket' = [socket EXCEPT ![c] = close(@)]
  /\ Becomes(c, cleanupCalls(StateOf(c), c, ConnectionClosedException, {}))
  /\ UNCHANGED <<conns, rpcTimeout, rd, cur, wire, reads>>

\* Connection.prototype._close invoked by the owner of Connection c
Shutdown(c) ==
  /\ ~socket[c].ended /\ socket[c].closes = 0
  /\ socket' = [socket EXCEPT ![c] = close(@)]
  /\ UNCHANGED <<conns, Call_Counter, objs, owner, doneEvents, calls, closed, rpcTimeout, out, rd,
                 cur, wire, closeEmits, reads>>

\* the deadline timer of Call object k fires
TimerFire(k) ==
  /\ k \in 1 .. Len(objs)
  /\ objs[k].timer = "armed"
  /\ LET S == handleTimeoutit([o |-> [objs EXCEPT ![k].timer = "fired"], e |-> doneEvents], k)
     IN objs' = S.o /\ doneEvents' = S.e
  /\ UNCHANGED <<conns, Call_Counter, owner, calls, closed, rpcTimeout, socket, out, rd, cur, wire,
                 closeEmits, reads>>

\* data reaches the dispatch loop only while the socket is alive
Readable(c) == socket[c].connected /\ socket[c].closes = 0 /\ socket[c].errors = 0

\* a payload callback that returns without calling _nextResponse
RearmMissing == "stopped"

\* what the loop does once a frame has been handled: self._nextResponse()
Rearm == "prefix"

\* the readFields callback of _nextResponse, with no error: a prefix <<id, flag, size>> was read
ReadPrefix(c, id, flag) ==
  /\ rd[c] = "prefix" /\ Readable(c)
  /\ reads[c] # <<>> /\ Head(reads[c]) = "prefix"
  /\ wire' = [wire EXCEPT ![c] = [id |-> id, flag |-> flag]]
  /\ LET k == TableGet(calls[c], id)
     IN /\ calls' = [calls EXCEPT ![c] = TableDelete(@, id)]
        /\ IF ~isLength(flag)
             THEN IF k = Undefined
                    THEN \* call.setException on undefined: the callback throws
                         /\ rd' = [rd EXCEPT ![c] = "threw"]
                         /\ reads' = [reads EXCEPT ![c] = Tail(@)]
                         /\ UNCHANGED <<objs, doneEvents, socket, cur>>
                    ELSE LET S == setException([o |-> objs, e |-> doneEvents], k,
                                               MissingLength(flag))
                         IN /\ objs' = S.o /\ doneEvents' = S.e
                            /\ socket' = [socket EXCEPT ![c] = close(@)]
                            /\ rd' = [rd EXCEPT ![c] = "stopped"]
                            /\ reads' = [reads EXCEPT ![c] = Tail(@)]
                            /\ UNCHANGED cur
             ELSE /\ rd' = [rd EXCEPT ![c] = "payload"]
                  /\ reads' = [reads EXCEPT ![c] = readBytes(Tail(@))]
                  /\ cur' = [cur EXCEPT ![c] = [call |-> k, isError |-> isError(flag)]]
                  /\ UNCHANGED <<objs, doneEvents, socket>>
  /\ UNCHANGED <<conns, Call_Counter, owner, closed, rpcTimeout, out, closeEmits>>

\* the stream reader reports a read error to the prefix callback only while the socket is alive
ReadFails(c) == Readable(c)

\* the readFields callback of _nextResponse, called with an error: hasData tells whether a
\* prefix (bearing id) is passed along with the error
ReadPrefixError(c, hasData, id) ==
  /\ rd[c] = "prefix" /\ ReadFails(c)
  /\ reads[c] # <<>> /\ Head(reads[c]) = "prefix"
  /\ reads' = [reads EXCEPT ![c] = Tail(@)]
  /\ IF ~hasData
       THEN \* data.size on undefined: the callback throws
            /\ rd' = [rd EXCEPT ![c] = "threw"]
            /\ UNCHANGED <<calls, objs, doneEvents, socket>>
       ELSE LET k == TableGet(calls[c], id)
            IN /\ calls' = [calls EXCEPT ![c] = TableDelete(@, id)]
               /\ IF k = Undefined
                    THEN \* call.setException on undefined: the callback throws
                         /\ rd' = [rd EXCEPT ![c] = "threw"]
                         /\ UNCHANGED <<objs, doneEvents, socket>>
                    ELSE LET S == setException([o |-> objs, e |-> doneEvents], k, ReadErr)
                         IN /\ objs' = S.o /\ doneEvents' = S.e
                            /\ socket' = [socket EXCEPT ![c] = close(@)]
                            /\ rd' = [rd EXCEPT ![c] = "stopped"]
  /\ UNCHANGED <<conns, Call_Counter, owner, closed, rpcTimeout, out, cur, wire, closeEmits>>

\* a payload callback that ignores isError and decodes a value
completeFromPayloadAsValue(S, k, err, s1, s2) == setValue(S, k, s1)

\* lines 266-274: complete the captured call from the payload <<s1, s2>>
completeFromPayload(S, k, err, s1, s2) ==
  IF err THEN setException(S, k, RemoteException(s1, s2))
         ELSE setValue(S, k, s1)

\* the payload the server sends in the response frame of call id: a value (success frame),
\* or an exception class name and a message (error frame)
Payload(id) == [s1 |-> "s1#" \o ToString(id), s2 |-> "s2#" \o ToString(id)]

\* the readBytes callback of _nextResponse: the payload <<s1, s2>> was read
ReadPayload(c, s1, s2) ==
  /\ rd[c] = "payload" /\ Readable(c)
  /\ reads[c] # <<>> /\ Head(reads[c]) = "payload"
  /\ wire' = [wire EXCEPT ![c] = NoFrame]
  /\ cur' = [cur EXCEPT ![c] = NoClosure]
  /\ IF cur[c].call = Undefined
       THEN \* call.setException / call.id on undefined: the callback throws
            /\ rd' = [rd EXCEPT ![c] = "threw"]
            /\ reads' = [reads EXCEPT ![c] = Tail(@)]
            /\ UNCHANGED <<objs, doneEvents>>
       ELSE LET S == completeFromPayload([o |-> objs, e |-> doneEvents], cur[c].call,
                                         cur[c].isError, s1, s2)
            IN /\ objs' = S.o /\ doneEvents' = S.e
               /\ rd' = [rd EXCEPT ![c] = Rearm]
               /\ reads' = [reads EXCEPT ![c] = IF Rearm = "prefix" THEN nextResponse(Tail(@))
                                                                    ELSE Tail(@)]
  /\ UNCHANGED <<conns, Call_Counter, owner, calls, closed, rpcTimeout, socket, out, closeEmits>>

\* the callbacks a drain of Connection c can reach and that may retry: those of the Calls
\* pending in its table and of the Calls yet to be created
Retries(c) ==
  IF Len(objs) >= MaxCalls THEN {{}}
  ELSE SUBSET ({calls[c][id] : id \in {i \in DOMAIN calls[c] : ~objs[calls[c][i]].done}}
               \cup ((Len(objs) + 1) .. MaxCalls))

Next ==
  \/ \E c \in conns, arg \in TimeoutArgs : \E retry \in Retries(c) : call(c, arg, retry)
  \/ \E c \in conns : SocketConnect(c)
  \/ \E c \in conns : \E retry \in Retries(c) : SocketClose(c, retry)
  \/ \E c \in conns : \E retry \in Retries(c) : SocketError(c, retry)
  \/ \E c \in conns : Shutdown(c)
  \/ \E k \in 1 .. MaxCalls : TimerFire(k)
  \/ \E c \in conns, id \in Ids, flag \in Flags : ReadPrefix(c, id, flag)
  \/ \E c \in conns, hasData \in BOOLEAN, id \in Ids : ReadPrefixError(c, hasData, id)
  \/ \E c \in conns : ReadPayload(c, Payload(wire[c].id).s1, Payload(wire[c].id).s2)

Spec == Init /\ [][Next]_vars

\* armed timers eventually fire
FairSpec == Spec /\ \A k \in 1 .. MaxCalls : WF_vars(TimerFire(k))

\* two Connections over sockets that connect, answer the calls pending on them and close
\* once; no callback retries
NextMulti ==
  \/ \E c \in conns, arg \in TimeoutArgs : call(c, arg, {})
  \/ \E c \in conns : SocketConnect(c)
  \/ \E c \in conns : socket[c].closes = 0 /\ SocketClose(c, {})
  \/ \E k \in 1 .. MaxCalls : TimerFire(k)
  \/ \E c \in conns : \E id \in DOMAIN calls[c], flag \in {LENGTH_BIT, LENGTH_BIT + ERROR_BIT} :
        ReadPrefix(c, id, flag)
  \/ \E c \in conns : ReadPayload(c, Payload(wire[c].id).s1, Payload(wire[c].id).s2)

SpecMulti == InitMulti /\ [][NextMulti]_vars

\* ------------------------------------------------------------------ claims
CallObjs == 1 .. Len(objs)

\* some completion event has reached Call object k: a response was dispatched to it, its
\* timer fired, or a drain failed it
Reached(k) ==
  \/ objs[k].done
  \/ objs[k].timer = "fired"
  \/ objs[k].error # NoError
  \/ objs[k].value # Null

ConnectionLevel(err) == err \in {ConnectionClosedException, SocketErr}

\* C2: when the socket of a Connection reports 'close' or 'error', every Call issued on it
\* and not yet completed completes, in that step, with a connection-level error, and the
\* Pending-Call Table holds none of the earlier Calls afterwards.
C2_DrainFailsAllOutstanding ==
  [][\A c \in conns :
       (socket'[c].closes > socket[c].closes \/ socket'[c].errors > socket[c].errors)
       => /\ \A id \in DOMAIN calls'[c] : calls'[c][id] \notin CallObjs
          /\ \A k \in CallObjs :
               (owner[k] = c /\ ~objs[k].done)
               => /\ Len(doneEvents'[k]) = 1
                  /\ ConnectionLevel(doneEvents'[k][1][1])]_vars

\* C3: a Call that completes with a value completes with the value of the response frame
\* bearing its own id (the server puts Payload(id) in the frame of call id), never with the
\* value of another call's frame.
C3_ValueOfOwnFrame ==
  \A k \in CallObjs :
    (doneEvents[k] # <<>> /\ doneEvents[k][1][2] # Null)
    => doneEvents[k][1] = <<NoError, Payload(objs[k].id).s1>>

\* C3 witness: two Calls outstanding on one Connection; the later one has completed with its
\* value while the frame of the earlier one is only now being dispatched
C3_Witness ==
  \E i, j \in CallObjs :
    /\ i < j /\ owner[i] = owner[j]
    /\ doneEvents[j] = << <<NoError, Payload(objs[j].id).s1>> >>
    /\ ~objs[i].done
    /\ rd[owner[i]] = "payload"
    /\ cur[owner[i]].call = i
    /\ wire[owner[i]].id = objs[i].id

\* C4: every Call issued through call() eventually completes, unless it was issued with a
\* non-positive timeout on a Connection that never fails: a Call whose timer is armed, or
\* whose Connection's socket has reported 'close', is eventually done.
C4_EventuallyCompletes ==
  \A k \in 1 .. MaxCalls :
    [](( /\ k \in CallObjs
         /\ \/ objs[k].timer = "armed"
            \/ socket[owner[k]].closes > 0 )
       => <>(k \in CallObjs /\ objs[k].done))

\* C5: Call ids are strictly increasing in creation order, across Connections; every table
\* entry holds the Call bearing that id, created on that Connection; and no id is in the
\* Pending-Call Tables of two Connections at once.
C5_IdsUniqueIncreasing ==
  /\ \A i, j \in CallObjs : i < j => objs[i].id < objs[j].id
  /\ \A k \in CallObjs : objs[k].id < Call_Counter
  /\ \A c \in Conns : \A id \in DOMAIN calls[c] :
       /\ calls[c][id] \in CallObjs
       /\ objs[calls[c][id]].id = id
       /\ owner[calls[c][id]] = c
  /\ \A c1, c2 \in Conns : c1 # c2 => DOMAIN calls[c1] \cap DOMAIN calls[c2] = {}

\* C5 witness: Calls created alternately on the two Connections, a Call pending in each table
C5_Witness ==
  /\ Len(objs) >= 2
  /\ owner[1] # owner[2]
  /\ calls[1] # EmptyTable
  /\ calls[2] # EmptyTable

\* the Call objects created in this step: by call(), and by the callbacks that retry
NewObjs == (Len(objs) + 1) .. Len(objs')

\* C6: call() on a Connection whose closed flag is set completes the new Call at once with a
\* connection-closed error, writes nothing to the socket, and leaves the Pending-Call Table
\* without the new Call.
C6_CallOnClosedFailsFast ==
  [][\A k \in NewObjs :
       closed[owner'[k]]
       => LET c == owner'[k]
          IN /\ doneEvents'[k] = << <<ConnectionClosedException, Null>> >>
             /\ objs'[k].done
             /\ out'[c] = out[c]
             /\ objs'[k].id \notin DOMAIN calls'[c]]_vars

\* a request frame for call id was written to the socket of Connection c
Written(c, id) == \E n \in 1 .. Len(out[c]) : out[c][n] = RequestFrame(id)

\* C6 witness: a Call failed with a connection-closed error for which no request frame was
\* ever written
C6_Witness ==
  \E k \in CallObjs :
    /\ closed[owner[k]]
    /\ doneEvents[k] = << <<ConnectionClosedException, Null>> >>
    /\ ~Written(owner[k], objs[k].id)

\* the 'done' event Call object k receives in this step, if it receives its first one
Completes(k) == doneEvents[k] = <<>> /\ doneEvents'[k] # <<>>
IsTimeoutError(k, err) == err = RemoteCallTimeoutException(objs[k].timeout)
IsRemoteError(k, err) ==
  err = RemoteException(Payload(objs[k].id).s1, Payload(objs[k].id).s2)
Reading(state) == state \in {"prefix", "payload"}

\* C7: when a Call completes with the RemoteError of its response frame or by its timer
\* firing, no other Call changes or receives an event, every other entry of every
\* Pending-Call Table stays, no Connection is closed or shut down, and a dispatch loop that
\* was reading is still reading.
C7_RemoteAndTimeoutErrorsAreLocal ==
  [][\A k \in CallObjs :
       (/\ Completes(k)
        /\ \/ IsTimeoutError(k, doneEvents'[k][1][1])
           \/ IsRemoteError(k, doneEvents'[k][1][1]))
       => /\ \A j \in CallObjs \ {k} : objs'[j] = objs[j] /\ doneEvents'[j] = doneEvents[j]
          /\ \A c \in Conns :
               TableDelete(calls'[c], objs[k].id) = TableDelete(calls[c], objs[k].id)
          /\ closed' = closed
          /\ socket' = socket
          /\ \A c \in Conns : Reading(rd[c]) => Reading(rd'[c])]_vars

\* C7 witness: a Call completed with the RemoteError of its frame while another Call of the
\* same Connection is still pending in the table, the Connection open and the loop reading
C7_Witness ==
  \E k, j \in CallObjs :
    /\ k # j /\ owner[k] = owner[j]
    /\ doneEvents[k] # <<>> /\ IsRemoteError(k, doneEvents[k][1][1])
    /\ ~objs[j].done
    /\ objs[j].id \in DOMAIN calls[owner[j]]
    /\ ~closed[owner[k]] /\ ~socket[owner[k]].ended
    /\ rd[owner[k]] = "prefix"

\* a response prefix is read in this step on Connection c
PrefixRead(c) == rd[c] = "prefix" /\ wire'[c] # NoFrame

\* C8: when the loop reads a prefix whose flag lacks the has-declared-length marker, the
\* Call with that id (if pending) completes with the protocol error, the socket is shut
\* down, and the loop is no longer reading.
C8_MissingLengthClosesConnection ==
  [][\A c \in Conns :
       (PrefixRead(c) /\ ~isLength(wire'[c].flag))
       => /\ \A k \in CallObjs :
               (TableGet(calls[c], wire'[c].id) = k /\ ~objs[k].done)
               => doneEvents'[k] = << <<MissingLength(wire'[c].flag), Null>> >>
          /\ socket'[c].ended
          /\ ~Reading(rd'[c])]_vars

\* C8, restricted to a prefix whose id has an entry in the Pending-Call Table: the Call is
\* removed and, if still pending, completes with the protocol error; the socket is shut
\* down; the loop stops, and a stopped loop never reads another frame.
C8_MissingLengthWithCallInTable ==
  [][\A c \in Conns :
       /\ (/\ PrefixRead(c)
           /\ ~isLength(wire'[c].flag)
           /\ wire'[c].id \in DOMAIN calls[c])
          => LET k == calls[c][wire'[c].id]
             IN /\ ~objs[k].done =>
                     doneEvents'[k] = << <<MissingLength(wire'[c].flag), Null>> >>
                /\ objs'[k].done
                /\ wire'[c].id \notin DOMAIN calls'[c]
                /\ socket'[c].ended
                /\ rd'[c] = "stopped"
       /\ rd[c] = "stopped" => (rd'[c] = "stopped" /\ wire'[c] = wire[c])]_vars

\* a state the restricted C8 is about: a Call failed with the protocol error, its Connection's socket shut down and
\* its dispatch loop stopped
C8_CallInTableCase ==
  \E k \in CallObjs :
    /\ doneEvents[k] = << <<MissingLength(wire[owner[k]].flag), Null>> >>
    /\ ~isLength(wire[owner[k]].flag)
    /\ socket[owner[k]].ended
    /\ rd[owner[k]] = "stopped"

\* the payload of the frame being dispatched on Connection c is handled in this step
PayloadRead(c) == rd[c] = "payload" /\ rd'[c] # "payload"

\* C9: a frame whose flag has the error bit set completes its (pending) Call with the
\* RemoteError built from the two strings of the payload and with no value; a frame without
\* the error bit completes it with the decoded value and no error.
C9_ErrorBitDecidesCompletion ==
  [][\A c \in Conns :
       (/\ PayloadRead(c)
        /\ cur[c].call # Undefined
        /\ ~objs[cur[c].call].done)
       => doneEvents'[cur[c].call] =
            IF isError(wire[c].flag)
              THEN << <<RemoteException(Payload(wire[c].id).s1, Payload(wire[c].id).s2), Null>> >>
              ELSE << <<NoError, Payload(wire[c].id).s1>> >>]_vars

\* C9 witness: a Call completed with a RemoteError after its error-flagged frame, the loop
\* re-armed and no value delivered
C9_Witness ==
  \E k \in CallObjs :
    /\ doneEvents[k] = << <<RemoteException(Payload(objs[k].id).s1, Payload(objs[k].id).s2), Null>> >>
    /\ objs[k].value = Null

\* positions of the handshake's magic token among the writes of Connection c
MagicAt(c) == {n \in 1 .. Len(out[c]) : out[c][n] = Handshake[1]}

\* C10: on every Connection the handshake is written at most once, and when it is written
\* it is the first thing on the socket: magic, version, header length, header, with every
\* request frame after it.
C10_HandshakeOnceBeforeFrames ==
  \A c \in Conns :
    /\ Cardinality(MagicAt(c)) <= 1
    /\ \A n \in MagicAt(c) : n = 1 /\ SubSeq(out[c], 1, 4) = Handshake

\* the socket of Connection c reports 'close' / 'error' in this step
CloseEvent(c) == socket'[c].closes > socket[c].closes
ErrorEvent(c) == socket'[c].errors > socket[c].errors

\* C11: when the socket reports 'close' or 'error', the Connection is marked closed and its
\* 'close' listeners are notified.
C11_TransportFailureMarksClosed ==
  [][\A c \in Conns :
       (CloseEvent(c) \/ ErrorEvent(c))
       => /\ closed'[c]
          /\ closeEmits'[c] = closeEmits[c] + 1]_vars

\* C12: once the closed flag of a Connection is set it stays set, and nothing more is written
\* to its socket.
C12_ClosedIsTerminal ==
  [][\A c \in Conns : closed[c] => (closed'[c] /\ out'[c] = out[c])]_vars

\* C12 witness: a closed Connection on which call() was invoked after the socket had
\* reported 'close' twice
C12_Witness ==
  \E k \in CallObjs :
    /\ closed[owner[k]]
    /\ socket[owner[k]].closes = 2
    /\ closeEmits[owner[k]] = 3
    /\ objs[k].done
    /\ ~Written(owner[k], objs[k].id)

\* C13: no Call whose done flag is set is in a Pending-Call Table.
C13_DoneCallsLeaveTable ==
  \A c \in Conns : \A id \in DOMAIN calls[c] : ~objs[calls[c][id]].done

\* C14: a response frame whose id has no entry in the Pending-Call Table delivers no
\* completion, does not make the read callbacks fail, and leaves the loop re-armed once its
\* payload has been read.
C14_UnknownIdIgnored ==
  [][\A c \in Conns :
       /\ (PrefixRead(c) /\ wire'[c].id \notin DOMAIN calls[c])
          => (doneEvents' = doneEvents /\ rd'[c] # "threw")
       /\ (PayloadRead(c) /\ cur[c].call = Undefined)
          => (doneEvents' = doneEvents /\ rd'[c] = "prefix")]_vars

\* C15: at most one read is outstanding on the input stream of a Connection, and while a
\* frame is being dispatched (its prefix read, its payload not yet consumed) no prefix read
\* is outstanding.
C15_OneReadAtATime ==
  \A c \in Conns :
    /\ Len(reads[c]) <= 1
    /\ wire[c] # NoFrame => \A n \in 1 .. Len(reads[c]) : reads[c][n] # "prefix"
    /\ rd[c] \in {"prefix", "payload"} <=> reads[c] = <<rd[c]>>

\* C15 witness: one frame was dispatched to its Call and the payload read of the next frame
\* is the only read outstanding
C15_Witness ==
  \E k \in CallObjs :
    /\ objs[k].value # Null
    /\ reads[owner[k]] = <<"payload">>
    /\ wire[owner[k]] # NoFrame

\* the Call objects in the Pending-Call Table of Connection c
InTable(c) == {calls[c][id] : id \in DOMAIN calls[c]}

\* C16: when a drain runs on 'close' or 'error', every Call of the table as it was receives
\* at most one 'done' in all, the pending ones exactly the drain's error, and none is in the
\* table afterwards; a Call registered by a callback during the drain is in the new table,
\* written and still pending when the Connection is not closed, and is failed exactly once,
\* by the _handleClose of its own call(), when the Connection is closed.
C16_DrainSwapsTableFirst ==
  [][\A c \in Conns :
       (CloseEvent(c) \/ ErrorEvent(c))
       => /\ \A k \in InTable(c) :
               /\ Len(doneEvents'[k]) = 1
               /\ objs'[k].done
               /\ k \notin {calls'[c][id] : id \in DOMAIN calls'[c]}
               /\ ~objs[k].done =>
                    doneEvents'[k] = << <<IF CloseEvent(c) THEN ConnectionClosedException
                                                           ELSE SocketErr, Null>> >>
          /\ \A k \in NewObjs :
               IF closed'[c]
                 THEN /\ doneEvents'[k] = << <<ConnectionClosedException, Null>> >>
                      /\ objs'[k].id \notin DOMAIN calls'[c]
                 ELSE /\ TableGet(calls'[c], objs'[k].id) = k
                      /\ doneEvents'[k] = <<>>
                      /\ ~objs'[k].done
                      /\ out'[c] = Append(out[c], RequestFrame(objs'[k].id))]_vars

\* C16 witness: a Call failed by the drain of 'error', and the Call its callback issued
\* pending in the new table with its request written
C16_Witness ==
  \E k, j \in CallObjs :
    /\ k < j /\ owner[k] = owner[j]
    /\ doneEvents[k] = << <<SocketErr, Null>> >>
    /\ objs[j].timeout = objs[k].timeout
    /\ TableGet(calls[owner[j]], objs[j].id) = j
    /\ ~objs[j].done
    /\ Written(owner[j], objs[j].id)
    /\ socket[owner[j]].errors = 1

\* the prefix callback of Connection c runs with a read error in this step
PrefixReadError(c) == rd[c] = "prefix" /\ rd'[c] # "prefix" /\ wire'[c] = NoFrame

\* C17: when the prefix callback is called with a read error, the socket is shut down, the
\* Call the prefix resolves to (if any) is removed and failed with that error, and the
\* callback does not throw.
C17_PrefixReadErrorClosesConnection ==
  [][\A c \in Conns :
       PrefixReadError(c)
       => /\ socket'[c].ended
          /\ rd'[c] = "stopped"
          /\ \A k \in InTable(c) :
               (k \notin {calls'[c][id] : id \in DOMAIN calls'[c]} /\ ~objs[k].done)
               => doneEvents'[k] = << <<ReadErr, Null>> >>]_vars

\* C18: a Call whose done flag is set has no armed timer; a Call created with a positive
\* timeout keeps its timer armed for as long as it is pending, and when the timer fires
\* first the Call completes with the timeout error of its own deadline.
C18_DoneCallsHaveNoArmedTimer ==
  \A k \in CallObjs :
    /\ objs[k].done => objs[k].timer # "armed"
    /\ (objs[k].timeout > 0 /\ ~objs[k].done) => objs[k].timer = "armed"
    /\ objs[k].timer = "fired"
       => /\ objs[k].done
          /\ doneEvents[k] = << <<RemoteCallTimeoutException(objs[k].timeout), Null>> >>

\* C18 witness: one Call completed by a response, its timer cleared, and another completed
\* by its timer
C18_Witness ==
  \E k, j \in CallObjs :
    /\ objs[k].done /\ objs[k].timer = "cleared" /\ objs[k].value # Null
    /\ objs[j].done /\ objs[j].timer = "fired"

\* the ids of the table entries a read callback of Connection c removes in this step
Dispatched(c) == IF rd'[c] # rd[c] THEN DOMAIN calls[c] \ DOMAIN calls'[c] ELSE {}

\* C19: a step that shuts the socket down (_close, called by the owner or by the prefix
\* callback) changes neither the closed flag nor the 'close' notifications nor the writes,
\* and leaves every Call of the table in the table and as it was, but for the one Call the
\* prefix callback itself removed first.
C19_ShutdownOnlyEndsSocket ==
  [][\A c \in Conns :
       (~socket[c].ended /\ socket'[c].ended)
       => /\ closed' = closed
          /\ closeEmits' = closeEmits
          /\ out' = out
          /\ Cardinality(Dispatched(c)) <= 1
          /\ DOMAIN calls'[c] = DOMAIN calls[c] \ Dispatched(c)
          /\ \A id \in DOMAIN calls'[c] :
               /\ calls'[c][id] = calls[c][id]
               /\ objs'[calls[c][id]] = objs[calls[c][id]]
               /\ doneEvents'[calls[c][id]] = doneEvents[calls[c][id]]]_vars

\* C19 witness: the socket was shut down by the owner while a Call is pending: the Call is
\* still pending in the table and the Connection is not marked closed
C19_Witness ==
  \E k \in CallObjs :
    /\ socket[owner[k]].ended
    /\ rd[owner[k]] \in {"idle", "prefix"}
    /\ TableGet(calls[owner[k]], objs[k].id) = k
    /\ ~objs[k].done
    /\ ~closed[owner[k]]

\* C20: a Connection emits its 'close' notification at most once.
C20_CloseEmittedAtMostOnce == \A c \in Conns : closeEmits[c] <= 1

====
